---- MODULE Spec2Model ----
(***************************************************************************)
(* A model of degenbot's Uniswap V2 helper functions                       *)
(* (src/src/degenbot/uniswap/v2_functions.py):                             *)
(*   generate_v2_pool_address        the CREATE2 address of a V2 pool      *)
(*   get_v2_pools_from_token_path    the pools along a token route         *)
(*   constant_product_calc_exact_in  x*y=k swap, exact input               *)
(*   constant_product_calc_exact_out x*y=k swap, exact output              *)
(* The functions are pure; each is exercised by a small caller whose       *)
(* arguments are drawn from bounded sets and whose steps are the calls.    *)
(***************************************************************************)
EXTENDS Integers, Sequences, FiniteSets

VARIABLES
    \* ---- caller of generate_v2_pool_address
    addr_pc,            \* "start" | "called" | "done"
    deployer_address,   \* the deployer argument
    token_addresses,    \* the tokens as the caller supplies them (str or bytes)
    init_hash,          \* the init-code hash argument
    address_given,      \* outcome for the tokens in the caller's order
    address_swapped,    \* outcome for the tokens in the opposite order
    \* ---- caller of the constant product functions
    swap_pc,            \* "start" | "in" | "out" | "in_in" | "in_out" | "out_in"
    amount,             \* amount_in (exact_in) or amount_out (exact_out)
    reserves_in,
    reserves_out,
    fee,                \* a Fraction: [numerator, denominator]
    first,              \* outcome of the first call
    amount2,            \* the amount of the second exact_in call
    second,             \* outcome of the second call
    \* ---- get_v2_pools_from_token_path
    path_pc,            \* "start" | "loop" | "returned" | "raised"
    tx_path,            \* the route
    pool_manager,       \* the token pairs the manager can resolve
    hop,                \* position of itertools.pairwise
    result,             \* the local list
    lookups,            \* the calls made to pool_manager, in order
    path_outcome        \* what the caller receives

addrVars == <<addr_pc, deployer_address, token_addresses, init_hash,
              address_given, address_swapped>>
swapVars == <<swap_pc, amount, reserves_in, reserves_out, fee, first, amount2, second>>
pathVars == <<path_pc, tx_path, pool_manager, hop, result, lookups, path_outcome>>
vars == <<addrVars, swapVars, pathVars>>

\* ------------------------------------------------------------------ bounds
AddrLen == 2        \* bytes in an address (20 in the program)
MaxAmount == 8      \* largest swap amount drawn
MaxReserve == 7     \* largest reserve drawn
MaxDen == 4         \* largest fee denominator drawn
MaxPathLen == 4     \* longest route drawn

\* ---------------------------------------------------------------- outcomes
NoCall == [kind |-> "none"]
Ok(v) == [kind |-> "ok", value |-> v]
Raise(e) == [kind |-> "raise", error |-> e]

RECURSIVE Reverse(_)
Reverse(s) == IF s = <<>> THEN <<>> ELSE Reverse(Tail(s)) \o <<Head(s)>>

\* ======================================================== AddressDeriver

\* The value of one hexadecimal digit, either case.
HexDigit(c) ==
    CASE c = "0" -> 0 [] c = "1" -> 1 [] c = "2" -> 2 [] c = "3" -> 3
      [] c = "4" -> 4 [] c = "5" -> 5 [] c = "6" -> 6 [] c = "7" -> 7
      [] c = "8" -> 8 [] c = "9" -> 9
      [] c \in {"a", "A"} -> 10 [] c \in {"b", "B"} -> 11
      [] c \in {"c", "C"} -> 12 [] c \in {"d", "D"} -> 13
      [] c \in {"e", "E"} -> 14 [] c \in {"f", "F"} -> 15

\* HexBytes(address): bytes are kept, a hex string is decoded two digits a byte.
HexBytes(address) ==
    IF address.kind = "bytes" THEN address.data
    ELSE [i \in 1..(Len(address.data) \div 2) |->
             16 * HexDigit(address.data[2 * i - 1]) + HexDigit(address.data[2 * i])]

\* bytes.__lt__: lexicographic order by byte value.
RECURSIVE BytesLess(_, _)
BytesLess(a, b) ==
    IF b = <<>> THEN FALSE
    ELSE IF a = <<>> THEN TRUE
    ELSE IF Head(a) # Head(b) THEN Head(a) < Head(b)
    ELSE BytesLess(Tail(a), Tail(b))

\* Insert x into the ascending list s, after the elements not greater than it.
RECURSIVE Insert(_, _)
Insert(x, s) ==
    IF s = <<>> THEN <<x>>
    ELSE IF BytesLess(x, Head(s)) THEN <<x>> \o s
    ELSE <<Head(s)>> \o Insert(x, Tail(s))

RECURSIVE sorted(_)
sorted(s) == IF s = <<>> THEN <<>> ELSE Insert(s[Len(s)], sorted(SubSeq(s, 1, Len(s) - 1)))

\* A plausible bug: the addresses are hashed in the order the caller gave them.
unsorted_token_addresses(tokens) == [i \in 1..Len(tokens) |-> HexBytes(tokens[i])]

sorted_token_addresses(tokens) == sorted([i \in 1..Len(tokens) |-> HexBytes(tokens[i])])

\* eth_abi.packed.encode_packed(("address", "address"), values): the two
\* 20-byte values, concatenated without padding.
encode_packed(values) == values[1] \o values[2]

\* Keccak-256 as an ideal hash: the digest stands for its preimage, so equal
\* digests mean equal inputs.
keccak(data) == [keccak |-> data]

salt(tokens) == keccak(encode_packed(sorted_token_addresses(tokens)))

\* degenbot.functions.create2_address: the last 20 bytes of
\* keccak(0xff ++ deployer ++ salt ++ init_code_hash).
create2_address(deployer, s, init_code_hash) ==
    [last20 |-> keccak(<<255, deployer, s, init_code_hash>>)]

generate_v2_pool_address(deployer, tokens, init) ==
    Ok(create2_address(deployer, salt(tokens), init))

\* ---- the arguments drawn
HexPairs == {<<"0", "a">>, <<"0", "A">>, <<"f", "f">>, <<"F", "F">>}
ByteValues == {10, 255}

RECURSIVE Concat(_)
Concat(ss) == IF ss = <<>> THEN <<>> ELSE Head(ss) \o Concat(Tail(ss))

BytesAddresses == {[kind |-> "bytes", data |-> d] : d \in [1..AddrLen -> ByteValues]}
StrAddresses == {[kind |-> "str", data |-> Concat(p)] : p \in [1..AddrLen -> HexPairs]}
Addresses == BytesAddresses \cup StrAddresses
Deployers == {"factory_1", "factory_2"}
InitHashes == {"init_hash_1", "init_hash_2"}

AddrIdle ==
    /\ addr_pc = "idle"
    /\ deployer_address = "factory_1"
    /\ token_addresses = <<>>
    /\ init_hash = "init_hash_1"
    /\ address_given = NoCall
    /\ address_swapped = NoCall

AddrInit ==
    /\ addr_pc = "start"
    /\ deployer_address \in Deployers
    /\ token_addresses \in [1..2 -> Addresses]
    /\ init_hash \in InitHashes
    /\ address_given = NoCall
    /\ address_swapped = NoCall

\* generate_v2_pool_address(d, [A, B], h)
GenerateGiven ==
    /\ addr_pc \in {"start", "called"}
    /\ address_given = NoCall
    /\ address_given' = generate_v2_pool_address(deployer_address, token_addresses, init_hash)
    /\ addr_pc' = IF addr_pc = "start" THEN "called" ELSE "done"
    /\ UNCHANGED <<deployer_address, token_addresses, init_hash, address_swapped>>
    /\ UNCHANGED <<swapVars, pathVars>>

\* generate_v2_pool_address(d, [B, A], h)
GenerateSwapped ==
    /\ addr_pc \in {"start", "called"}
    /\ address_swapped = NoCall
    /\ address_swapped' =
          generate_v2_pool_address(deployer_address, Reverse(token_addresses), init_hash)
    /\ addr_pc' = IF addr_pc = "start" THEN "called" ELSE "done"
    /\ UNCHANGED <<deployer_address, token_addresses, init_hash, address_given>>
    /\ UNCHANGED <<swapVars, pathVars>>

\* ============================================================== SwapMath

\* Python's a // b on ints: the floor of the quotient, for either sign of b;
\* ZeroDivisionError when b = 0.
PyFloorDiv(a, b) ==
    IF b = 0 THEN Raise("ZeroDivisionError")
    ELSE IF b > 0 THEN Ok(a \div b)
    ELSE Ok((0 - a) \div (0 - b))

\* 1 + q, where q is the outcome of a floor division (the error propagates).
OnePlus(q) == IF q.kind = "ok" THEN Ok(1 + q.value) ELSE q

\* A plausible bug: the quotient is rounded up instead of down.
exact_in_rounds_up(amount_in, r_in, r_out, f) ==
    LET q == PyFloorDiv(0 - amount_in * (f.denominator - f.numerator) * r_out,
                        r_in * f.denominator + amount_in * (f.denominator - f.numerator))
    IN  IF q.kind = "ok" THEN Ok(0 - q.value) ELSE q

\* A plausible bug: the two reserves are taken the wrong way round.
exact_in_swapped_reserves(amount_in, r_in, r_out, f) ==
    PyFloorDiv(amount_in * (f.denominator - f.numerator) * r_in,
               r_out * f.denominator + amount_in * (f.denominator - f.numerator))

\* A plausible bug: a sign slip in the divisor.
exact_in_subtracts(amount_in, r_in, r_out, f) ==
    PyFloorDiv(amount_in * (f.denominator - f.numerator) * r_out,
               r_in * f.denominator - amount_in * (f.denominator - f.numerator))

constant_product_calc_exact_in(amount_in, r_in, r_out, f) ==
    PyFloorDiv(amount_in * (f.denominator - f.numerator) * r_out,
               r_in * f.denominator + amount_in * (f.denominator - f.numerator))

\* A plausible bug: the quotient is returned without the 1 added.
exact_out_no_bias(amount_out, r_in, r_out, f) ==
    PyFloorDiv(r_in * amount_out * f.denominator,
               (r_out - amount_out) * (f.denominator - f.numerator))

\* A plausible bug: the fee factor and the fee denominator change places.
exact_out_fee_inverted(amount_out, r_in, r_out, f) ==
    OnePlus(PyFloorDiv(r_in * amount_out * (f.denominator - f.numerator),
                       (r_out - amount_out) * f.denominator))

constant_product_calc_exact_out(amount_out, r_in, r_out, f) ==
    OnePlus(PyFloorDiv(r_in * amount_out * f.denominator,
                       (r_out - amount_out) * (f.denominator - f.numerator)))

\* ---- the arguments drawn
RECURSIVE GCD(_, _)
GCD(a, b) == IF b = 0 THEN a ELSE GCD(b, a % b)

\* fractions.Fraction keeps lowest terms and a positive denominator; the fees
\* are those with 0 <= fee <= 1.
Fees == {[numerator |-> n, denominator |-> d] : n \in 0..MaxDen, d \in 1..MaxDen}
FeeSet == {f \in Fees : f.numerator <= f.denominator /\ GCD(f.numerator, f.denominator) = 1}

SwapIdle ==
    /\ swap_pc = "idle"
    /\ amount = 0
    /\ reserves_in = 0
    /\ reserves_out = 0
    /\ fee = [numerator |-> 0, denominator |-> 1]
    /\ first = NoCall
    /\ amount2 = 0
    /\ second = NoCall

SwapInit ==
    /\ swap_pc = "start"
    /\ amount \in 0..MaxAmount
    /\ reserves_in \in 0..MaxReserve
    /\ reserves_out \in 0..MaxReserve
    /\ fee \in FeeSet
    /\ first = NoCall
    /\ amount2 = 0
    /\ second = NoCall

\* constant_product_calc_exact_in(amount, reserves_in, reserves_out, fee)
CallExactIn ==
    /\ swap_pc = "start"
    /\ first' = constant_product_calc_exact_in(amount, reserves_in, reserves_out, fee)
    /\ swap_pc' = "in"
    /\ UNCHANGED <<amount, reserves_in, reserves_out, fee, amount2, second>>
    /\ UNCHANGED <<addrVars, pathVars>>

\* constant_product_calc_exact_out(amount, reserves_in, reserves_out, fee)
CallExactOut ==
    /\ swap_pc = "start"
    /\ first' = constant_product_calc_exact_out(amount, reserves_in, reserves_out, fee)
    /\ swap_pc' = "out"
    /\ UNCHANGED <<amount, reserves_in, reserves_out, fee, amount2, second>>
    /\ UNCHANGED <<addrVars, pathVars>>

\* A second exact_in call on the same reserves and fee, with another amount.
CallExactInAgain ==
    /\ swap_pc = "in"
    /\ \E a \in 0..MaxAmount :
          /\ amount2' = a
          /\ second' = constant_product_calc_exact_in(a, reserves_in, reserves_out, fee)
    /\ swap_pc' = "in_in"
    /\ UNCHANGED <<amount, reserves_in, reserves_out, fee, first>>
    /\ UNCHANGED <<addrVars, pathVars>>

\* exact_out asked for the amount exact_in returned, on the reserves the swap
\* leaves: exact_out(out, reserves_in + amount, reserves_out - out, fee).
CallExactOutAfterSwap ==
    /\ swap_pc = "in"
    /\ first.kind = "ok"
    /\ second' = constant_product_calc_exact_out(first.value, reserves_in + amount,
                                                 reserves_out - first.value, fee)
    /\ swap_pc' = "in_out"
    /\ UNCHANGED <<amount, reserves_in, reserves_out, fee, first, amount2>>
    /\ UNCHANGED <<addrVars, pathVars>>

\* exact_in given the amount exact_out quoted, on the same reserves.
CallExactInOfQuote ==
    /\ swap_pc = "out"
    /\ first.kind = "ok"
    /\ second' = constant_product_calc_exact_in(first.value, reserves_in, reserves_out, fee)
    /\ swap_pc' = "out_in"
    /\ UNCHANGED <<amount, reserves_in, reserves_out, fee, first, amount2>>
    /\ UNCHANGED <<addrVars, pathVars>>

SwapNext ==
    \/ CallExactIn
    \/ CallExactOut
    \/ CallExactInAgain
    \/ CallExactOutAfterSwap
    \/ CallExactInOfQuote

\* ========================================================== PathResolver

\* UniswapV2PoolManager.get_pool_from_tokens(token_addresses, silent=True): the
\* lookup is insensitive to the order of the two tokens; it gives the pool of
\* a pair the manager resolves and raises PoolNotFound, naming the pair,
\* otherwise.
get_pool_from_tokens(manager, pair) ==
    IF {pair[1], pair[2]} \in manager
    THEN Ok([pool |-> {pair[1], pair[2]}])
    ELSE [kind |-> "raise", error |-> "PoolNotFound", pair |-> pair]

\* itertools.pairwise(tx_path): (t1, t2), (t2, t3), ...; empty under two tokens.
pairwise(path) ==
    IF Len(path) < 2 THEN <<>>
    ELSE [i \in 1..(Len(path) - 1) |-> <<path[i], path[i + 1]>>]

\* ---- the arguments drawn
Tokens == {"WETH", "USDC", "DAI"}
TokenPairs == {{a, b} : a, b \in Tokens} \ {{a} : a \in Tokens}
Routes == UNION {[1..n -> Tokens] : n \in 0..MaxPathLen}

PathIdle ==
    /\ path_pc = "idle"
    /\ tx_path = <<>>
    /\ pool_manager = {}
    /\ hop = 1
    /\ result = <<>>
    /\ lookups = <<>>
    /\ path_outcome = NoCall

PathInit ==
    /\ path_pc = "start"
    /\ tx_path \in Routes
    /\ pool_manager \in SUBSET TokenPairs
    /\ hop = 1
    /\ result = <<>>
    /\ lookups = <<>>
    /\ path_outcome = NoCall

\* result = []; the for loop takes its iterator.
PathBegin ==
    /\ path_pc = "start"
    /\ result' = <<>>
    /\ hop' = 1
    /\ path_pc' = "loop"
    /\ UNCHANGED <<tx_path, pool_manager, lookups, path_outcome>>
    /\ UNCHANGED <<addrVars, swapVars>>

\* A plausible bug: a failed lookup is skipped and the loop goes on.
PathStepSkipsFailure ==
    /\ path_pc = "loop"
    /\ hop <= Len(pairwise(tx_path))
    /\ LET pair == pairwise(tx_path)[hop]
           pool == get_pool_from_tokens(pool_manager, pair)
       IN  /\ lookups' = Append(lookups, pair)
           /\ result' = IF pool.kind = "ok" THEN Append(result, pool.value) ELSE result
           /\ hop' = hop + 1
           /\ UNCHANGED <<path_pc, path_outcome>>
    /\ UNCHANGED <<tx_path, pool_manager>>
    /\ UNCHANGED <<addrVars, swapVars>>

\* A plausible bug: the pool is put at the front of the list.
PathStepPrepends ==
    /\ path_pc = "loop"
    /\ hop <= Len(pairwise(tx_path))
    /\ LET pair == pairwise(tx_path)[hop]
           pool == get_pool_from_tokens(pool_manager, pair)
       IN  /\ lookups' = Append(lookups, pair)
           /\ IF pool.kind = "ok"
              THEN /\ result' = <<pool.value>> \o result
                   /\ hop' = hop + 1
                   /\ UNCHANGED <<path_pc, path_outcome>>
              ELSE /\ path_pc' = "raised"
                   /\ path_outcome' = pool
                   /\ UNCHANGED <<result, hop>>
    /\ UNCHANGED <<tx_path, pool_manager>>
    /\ UNCHANGED <<addrVars, swapVars>>

\* One iteration of the loop: the lookup of the next pair; its pool is
\* appended, its exception leaves the function.
PathStep ==
    /\ path_pc = "loop"
    /\ hop <= Len(pairwise(tx_path))
    /\ LET pair == pairwise(tx_path)[hop]
           pool == get_pool_from_tokens(pool_manager, pair)
       IN  /\ lookups' = Append(lookups, pair)
           /\ IF pool.kind = "ok"
              THEN /\ result' = Append(result, pool.value)
                   /\ hop' = hop + 1
                   /\ UNCHANGED <<path_pc, path_outcome>>
              ELSE /\ path_pc' = "raised"
                   /\ path_outcome' = pool
                   /\ UNCHANGED <<result, hop>>
    /\ UNCHANGED <<tx_path, pool_manager>>
    /\ UNCHANGED <<addrVars, swapVars>>

\* return result, once pairwise is exhausted.
PathReturn ==
    /\ path_pc = "loop"
    /\ hop > Len(pairwise(tx_path))
    /\ path_outcome' = Ok(result)
    /\ path_pc' = "returned"
    /\ UNCHANGED <<tx_path, pool_manager, hop, result, lookups>>
    /\ UNCHANGED <<addrVars, swapVars>>

PathNext == PathBegin \/ PathStep \/ PathReturn

\* ======================================================== specifications

InitSwap == AddrIdle /\ SwapInit /\ PathIdle
SpecSwap == InitSwap /\ [][SwapNext]_vars

InitPath == AddrIdle /\ SwapIdle /\ PathInit
SpecPath == InitPath /\ [][PathNext]_vars

InitAddress == AddrInit /\ SwapIdle /\ PathIdle
AddressNext == GenerateGiven \/ GenerateSwapped
SpecAddress == InitAddress /\ [][AddressNext]_vars

\* ================================================================ claims

\* ---- C1: generate_v2_pool_address(d, [A, B], h) and
\* generate_v2_pool_address(d, [B, A], h) return the same address, whatever
\* the order and the form (str or bytes) in which the tokens are supplied.
C1_OrderIndependent ==
    addr_pc = "done" =>
        /\ address_given.kind = "ok"
        /\ address_swapped.kind = "ok"
        /\ address_given.value = address_swapped.value

\* Both calls made, for two different tokens supplied in descending order,
\* one of them as a hex string.
C1_Witness ==
    /\ addr_pc = "done"
    /\ BytesLess(HexBytes(token_addresses[2]), HexBytes(token_addresses[1]))
    /\ token_addresses[1].kind = "str"
    /\ token_addresses[2].kind = "bytes"
    /\ address_given.kind = "ok"

\* ---- C2: constant_product_calc_exact_out fails (with InsufficientReserve)
\* and returns no amount whenever amount_out >= reserves_out.  Stated on the
\* outcome alone, whatever the exception is called: the call raises.
C2_InsufficientReserve ==
    (swap_pc = "out" /\ amount >= reserves_out) => first.kind = "raise"

\* ---- C3: constant_product_calc_exact_in fails (with UninitializedPool) and
\* returns no amount whenever reserves_in = 0 or reserves_out = 0.  Stated on
\* the outcome alone, whatever the exception is called: the call raises.
C3_UninitializedPool ==
    (swap_pc = "in" /\ (reserves_in = 0 \/ reserves_out = 0)) => first.kind = "raise"

\* The arguments C4 quantifies over: a positive amount_in, positive reserves
\* and a fee below 1.
C4_Valid ==
    /\ amount > 0
    /\ reserves_in > 0
    /\ reserves_out > 0
    /\ fee.numerator < fee.denominator

\* ---- C4 as stated: with out = exact_in(amount_in, reserve_in, reserve_out, fee),
\* exact_out(out, reserve_in + amount_in, reserve_out - out, fee) returns a
\* value >= amount_in.  Stated on the calls whose inverse asks exact_out for
\* less than the output reserve it is given (out < reserve_out - out), so that
\* a violation owes nothing to exact_out's behaviour outside its domain.
C4_RoundingSafetyAsStated ==
    (swap_pc = "in_out" /\ C4_Valid /\ first.kind = "ok" /\ 2 * first.value < reserves_out)
        => (second.kind = "ok" /\ second.value >= amount)

\* amount_in is the least input that buys out, and out is below the output
\* reserve the swap leaves (reserve_out - out).
C4_LeastInputInRange ==
    /\ first.kind = "ok"
    /\ 2 * first.value < reserves_out
    /\ LET less == constant_product_calc_exact_in(amount - 1, reserves_in, reserves_out, fee)
       IN  less.kind = "ok" /\ less.value < first.value

\* ---- C4 amended: when moreover amount_in is the least input that yields
\* out and out < reserve_out - out, exact_out(out, reserve_in + amount_in,
\* reserve_out - out, fee) returns a value >= amount_in.
C4_RoundingSafety ==
    (swap_pc = "in_out" /\ C4_Valid /\ C4_LeastInputInRange)
        => (second.kind = "ok" /\ second.value >= amount)

\* The inverse quote of a least input of at least 3 under a fee.
C4_Witness ==
    /\ swap_pc = "in_out"
    /\ C4_Valid
    /\ C4_LeastInputInRange
    /\ amount >= 3
    /\ fee.numerator > 0
    /\ second.kind = "ok"

\* The arguments C5 quantifies over.
C5_Valid ==
    /\ reserves_in > 0
    /\ reserves_out > 0
    /\ 0 <= amount
    /\ amount < reserves_out
    /\ fee.numerator < fee.denominator

\* ---- C5: for 0 <= amount_out < reserve_out, positive reserves and a fee
\* below 1, x = exact_out(amount_out, ...) is returned and exact_in(x, ...) on
\* the same reserves returns a value >= amount_out.
C5_BiasSufficient ==
    /\ (swap_pc \in {"out", "out_in"} /\ C5_Valid) => first.kind = "ok"
    /\ (swap_pc = "out_in" /\ C5_Valid) => (second.kind = "ok" /\ second.value >= amount)

\* A quote for at least 2 out under a fee, fed back to exact_in.
C5_Witness ==
    /\ swap_pc = "out_in"
    /\ C5_Valid
    /\ amount >= 2
    /\ fee.numerator > 0
    /\ second.kind = "ok"

C7_ResolvesInOrder ==
    LET pairs == pairwise(tx_path)
        n == Len(tx_path)
    IN  (/\ path_pc = "returned"
         /\ n >= 2
         /\ \A i \in 1..Len(pairs) : get_pool_from_tokens(pool_manager, pairs[i]).kind = "ok")
        => /\ Len(lookups) = n - 1
           /\ \A i \in 1..(n - 1) : lookups[i] = <<tx_path[i], tx_path[i + 1]>>
           /\ path_outcome.kind = "ok"
           /\ Len(path_outcome.value) = n - 1
           /\ \A i \in 1..(n - 1) :
                 path_outcome.value[i] = get_pool_from_tokens(pool_manager, pairs[i]).value

\* A route of three hops over different pools, resolved.
C7_Witness ==
    /\ path_pc = "returned"
    /\ Len(tx_path) = 4
    /\ Len(path_outcome.value) = 3
    /\ path_outcome.value[1] # path_outcome.value[2]
    /\ path_outcome.value[2] # path_outcome.value[3]

\* ---- C8: for positive reserves and a fee in [0, 1], exact_in is
\* non-decreasing in amount_in: a1 <= a2 gives exact_in(a1) <= exact_in(a2).
C8_Monotonic ==
    (swap_pc = "in_in" /\ reserves_in > 0 /\ reserves_out > 0 /\ amount <= amount2)
        => /\ first.kind = "ok"
           /\ second.kind = "ok"
           /\ first.value <= second.value

\* Two amounts with strictly different results.
C8_Witness ==
    /\ swap_pc = "in_in"
    /\ reserves_in > 0
    /\ reserves_out > 0
    /\ amount < amount2
    /\ first.kind = "ok"
    /\ second.kind = "ok"
    /\ first.value < second.value

\* ---- C9: for amount_in >= 0, positive reserves and a fee in [0, 1], exact_in
\* returns q, the integer quotient of N = amount_in * feeFactor * reserve_out
\* by D = reserve_in * fee.denominator + amount_in * feeFactor, that is
\* q >= 0 and q * D <= N < (q + 1) * D; it returns 0 when amount_in = 0.
C9_FloorOfQuotient ==
    (swap_pc = "in" /\ reserves_in > 0 /\ reserves_out > 0) =>
        LET feeFactor == fee.denominator - fee.numerator
            N == amount * feeFactor * reserves_out
            D == reserves_in * fee.denominator + amount * feeFactor
        IN  /\ first.kind = "ok"
            /\ first.value >= 0
            /\ first.value * D <= N
            /\ N < (first.value + 1) * D
            /\ amount = 0 => first.value = 0

\* A result of at least 1 that the division truncated, under a fee.
C9_Witness ==
    /\ swap_pc = "in"
    /\ reserves_in > 0
    /\ fee.numerator > 0
    /\ first.kind = "ok"
    /\ first.value >= 1
    /\ first.value * (reserves_in * fee.denominator
                        + amount * (fee.denominator - fee.numerator))
          < amount * (fee.denominator - fee.numerator) * reserves_out

\* ---- C10: for positive reserves, amount_in >= 0 and a fee in [0, 1], exact_in
\* returns a non-negative integer strictly below reserve_out.
C10_BelowReserveOut ==
    (swap_pc = "in" /\ reserves_in > 0 /\ reserves_out > 0)
        => /\ first.kind = "ok"
           /\ 0 <= first.value
           /\ first.value < reserves_out

\* A swap that pays out all but one unit of the output reserve.
C10_Witness ==
    /\ swap_pc = "in"
    /\ reserves_in > 0
    /\ reserves_out >= 3
    /\ first.kind = "ok"
    /\ first.value = reserves_out - 1

====
